---------------------------- MODULE Spec2Model ----------------------------
(***************************************************************************)
(* EmailNotixion: the IMAP poller (xmail.py, EmailNotifier) and the        *)
(* monitor that runs one poller per account (core/monitor.py,              *)
(* EmailMonitor; core/account.py, AccountManager).                         *)
(*                                                                         *)
(* The IMAP server, the wall clock and the delivery targets are the        *)
(* environment.  A mailbox is the sequence of the messages that arrived,   *)
(* in arrival order; the i-th message has UID FirstUid + i - 1.  Which     *)
(* messages are unread and which IMAP commands fail is chosen anew at      *)
(* every call.                                                             *)
(***************************************************************************)
EXTENDS Integers, Sequences, FiniteSets, TLC

(***************************************************************************)
(* Bounds of the model.                                                    *)
(***************************************************************************)
FirstUid == 7
MaxMsgs == 4
MaxMonitorMsgs == 2
MaxTicks == 2
MaxMonitorTicks == 1
MaxMainMsgs == 1
MaxCallMsgs == 3
MaxDescLen == 6
MaxGapTicks == 4
MaxFetchFail == 1
MaxTextLen == 4
MaxBudget == 3

(***************************************************************************)
(* Program constants.                                                      *)
(***************************************************************************)
RECREATE_INTERVAL == 120
CHECK_TIMEOUT == 30
ACCOUNT_CACHE_TTL == 300
DEDUP_CLEANUP_INTERVAL == 300
RecencyWindow == 120
STOP_TIMEOUT == 5
DEFAULT_INTERVAL == 3
MIN_TEXT_NUM == 10
DEFAULT_TEXT_NUM == 50
\* MIN_INTERVAL = 0.5, in half seconds
MIN_INTERVAL == 1

\* self.last_uid = None
NoUid == 0
\* local_date = None: the Date header could not be parsed
NoDate == -1

\* The clock advances in steps longer than the recency window and the
\* recreate interval, shorter than the dedup and the cache intervals.
TickLen == RecencyWindow + 2 * CHECK_TIMEOUT
\* time.time() is seconds since the epoch: far beyond every interval.
StartTime == DEDUP_CLEANUP_INTERVAL + TickLen

Users == {"u1", "u2"}
Subjects == {"s1"}

Targets == {"t1"}

VARIABLES
    now,          \* time.time()
    mailbox,      \* per account: the messages on the server, in arrival order
    notifiers,    \* EmailMonitor._notifiers: user -> EmailNotifier
    is_running,   \* EmailMonitor._is_running
    task,         \* EmailMonitor._task: TRUE while the _monitor_loop task lives
    targets,      \* the targets handed to start()
    last_recreate_time,
    sent_emails,  \* EmailMonitor._sent_emails: the dedup keys
    sent_emails_cleanup_time,
    accounts,     \* the configured accounts: the users of the descriptors
    cache,        \* AccountManager._cache
    pc,           \* where _monitor_loop stands: "idle" (asleep) or "gather"
    results,      \* the outcome of each check task of the cycle
    \* History, read by the properties only:
    track,        \* which history the behaviour keeps (fixed by Init)
    lastPoll,     \* what the check_and_notify() call of the last step did
    lastCollect,  \* what the result loop of the last step did
    notified,     \* per message: how many polls returned it (at most 2 counted)
    msgLog,       \* what happened to a message: it arrived when its account's
                  \* cursor was set ("after"), a set cursor moved past it while
                  \* it was inside the recency window ("passed"), the result
                  \* loop handed it to a target ("sent") or dropped it as a
                  \* duplicate ("dup")
    presLog,      \* the notifications the result loop was given: the time, the
                  \* last bulk clear before it (epoch), whether it was forwarded
    \* State of the parts that only some specifications exercise:
    config,       \* the monitor's _interval (in half seconds) and _text_num, and
                  \* the text_num of each poller
    inflight,     \* the accounts with a check_and_notify() thread still running
                  \* for a check task that is over (timed out or cancelled)
    io,           \* the argument and the result of a function applied on its own
    callLog,      \* history: what the calls of start(), stop() and of the
                  \* configuration commands did
    stopping,     \* a stop() call waits for the cancelled loop task
    cycles        \* the parity of the number of loop iterations begun, kept
                  \* where the progress of the loop is followed

monitorVars == <<is_running, task, targets, last_recreate_time, sent_emails,
                 sent_emails_cleanup_time, accounts, cache, pc, results>>
historyVars == <<track, lastCollect, notified, msgLog, presLog>>
extraVars == <<config, inflight, io, callLog, stopping, cycles>>
vars == <<now, mailbox, notifiers, monitorVars, lastPoll, historyVars, extraVars>>

(***************************************************************************)
(* Message identifiers.  The server hands a UID out as the decimal digits  *)
(* of a number; the poller compares the raw byte strings.                  *)
(***************************************************************************)
RECURSIVE Digits(_)
Digits(n) == IF n < 10 THEN <<n>> ELSE Append(Digits(n \div 10), n % 10)

\* bytes.__gt__: lexicographic, a proper prefix is smaller.
RECURSIVE BytesGT(_, _)
BytesGT(s, t) ==
    IF s = <<>> THEN FALSE
    ELSE IF t = <<>> THEN TRUE
    ELSE IF Head(s) # Head(t) THEN Head(s) > Head(t)
    ELSE BytesGT(Tail(s), Tail(t))

\* uid > self.last_uid
UidGT(uid, last_uid) == BytesGT(Digits(uid), Digits(last_uid))

UidOf(i) == FirstUid + i - 1
IndexOf(uid) == uid - FirstUid + 1
Uids(box) == {UidOf(i) : i \in 1..Len(box)}

RECURSIVE Ascending(_)
Ascending(S) ==
    IF S = {} THEN <<>>
    ELSE LET m == CHOOSE x \in S : \A y \in S : x <= y
         IN <<m>> \o Ascending(S \ {m})

(***************************************************************************)
(* EmailNotifier                                                           *)
(***************************************************************************)
NewNotifier == [last_uid |-> NoUid, mail |-> FALSE]

\* (local_date, subject, mail_content); uid is carried along to tell the
\* messages apart.
EmailInfo(box, uid) ==
    [uid |-> uid, date |-> box[IndexOf(uid)].date, subj |-> box[IndexOf(uid)].subj]

\* The time test applied to a fetched message, in both passes.
RecencyPolicy(st, info, current_time) ==
    IF info.date # NoDate /\ info.date > current_time - RecencyWindow
    THEN [st EXCEPT !.new_emails = Append(@, info), !.last_uid = info.uid]
    ELSE IF info.date # NoDate /\ info.date <= current_time - RecencyWindow
    THEN [st EXCEPT !.last_uid = info.uid]
    ELSE [st EXCEPT !.new_emails = Append(@, info), !.last_uid = info.uid]

\* One iteration of the loop over the UNSEEN search result.  st.examined
\* lists the UIDs _get_email_info() was called for, in the order of the calls.
UnseenStep(st, uid, box, fetched, current_time) ==
    IF uid \in st.processed THEN st
    ELSE LET st1 == [st EXCEPT !.processed = @ \cup {uid}]
             st2 == [st1 EXCEPT !.examined = Append(@, uid)]
         IN IF st1.last_uid = NoUid \/ UidGT(uid, st1.last_uid)
            THEN IF uid \in fetched
                 THEN RecencyPolicy(st2, EmailInfo(box, uid), current_time)
                 ELSE st2
            ELSE st1

\* An iteration of the ALL loop that does not look at processed_uids.
AllStepNoSkip(st, uid, box, fetched, current_time) ==
    IF UidGT(uid, st.last_uid)
    THEN LET st1 == [st EXCEPT !.processed = @ \cup {uid},
                               !.examined = Append(@, uid)]
         IN IF uid \in fetched
            THEN RecencyPolicy(st1, EmailInfo(box, uid), current_time)
            ELSE st1
    ELSE st

\* One iteration of the loop over the ALL search result.
AllStep(st, uid, box, fetched, current_time) ==
    IF uid \in st.processed THEN st
    ELSE IF UidGT(uid, st.last_uid)
    THEN LET st1 == [st EXCEPT !.processed = @ \cup {uid},
                               !.examined = Append(@, uid)]
         IN IF uid \in fetched
            THEN RecencyPolicy(st1, EmailInfo(box, uid), current_time)
            ELSE st1
    ELSE st

RECURSIVE UnseenPass(_, _, _, _, _)
UnseenPass(st, uids, box, fetched, current_time) ==
    IF uids = <<>> THEN st
    ELSE UnseenPass(UnseenStep(st, Head(uids), box, fetched, current_time),
                    Tail(uids), box, fetched, current_time)

RECURSIVE AllPass(_, _, _, _, _)
AllPass(st, uids, box, fetched, current_time) ==
    IF uids = <<>> THEN st
    ELSE AllPass(AllStep(st, Head(uids), box, fetched, current_time),
                 Tail(uids), box, fetched, current_time)

(***************************************************************************)
(* The text of a message: a string is the sequence of its characters.      *)
(***************************************************************************)
Chars == {"a", ".", " ", "\n"}
Whitespace == {" ", "\n"}
Texts == UNION {[1..k -> Chars] : k \in 0..MaxTextLen}

\* "..."
Marker == <<".", ".", ".">>
\* The placeholder for a message without text: 7 characters.
Placeholder == <<"(", "n", "o", "t", "x", "t", ")">>

\* s[:n] for n >= 0
Take(s, n) == SubSeq(s, 1, IF n < Len(s) THEN n ELSE Len(s))

\* s.strip()
RECURSIVE Strip(_)
Strip(s) ==
    IF s = <<>> THEN s
    ELSE IF Head(s) \in Whitespace THEN Strip(Tail(s))
    ELSE IF s[Len(s)] \in Whitespace THEN Strip(SubSeq(s, 1, Len(s) - 1))
    ELSE s

\* ' '.join(text.split()), after the line breaks were turned into spaces: the
\* words of the text with one space between them.
RECURSIVE JoinSplit(_, _)
JoinSplit(s, acc) ==
    IF s = <<>> THEN acc
    ELSE IF Head(s) \in Whitespace
    THEN JoinSplit(Tail(s), IF acc # <<>> /\ acc[Len(acc)] # " "
                            THEN Append(acc, " ") ELSE acc)
    ELSE JoinSplit(Tail(s), Append(acc, Head(s)))

Normalise(text) == Strip(JoinSplit(text, <<>>))

\* A _process_content() that cuts the text to the budget before it normalises
\* the whitespace.
ProcessContentCutsFirst(text, text_num) ==
    IF text = <<>> THEN Placeholder
    ELSE LET t == IF Len(text) > text_num
                  THEN Take(text, text_num) \o Marker ELSE text
         IN IF Normalise(t) # <<>> THEN Normalise(t) ELSE Placeholder

\* _process_content(text) of a poller with budget text_num
_process_content(text, text_num) ==
    IF text = <<>> THEN Placeholder
    ELSE LET t == Normalise(text)
             cut == IF Len(t) > text_num THEN Take(t, text_num) \o Marker ELSE t
         IN IF Strip(cut) # <<>> THEN Strip(cut) ELSE Placeholder

\* The subject as _get_email_content() returns it.
TruncateSubject(subject, text_num) ==
    IF Len(subject) > text_num THEN Take(subject, text_num) \o Marker ELSE subject

(***************************************************************************)
(* What the server does during one check_and_notify() call:                *)
(*   connect  FALSE: _connect() raises                                     *)
(*   unseen   "raise": the UNSEEN search raises; "ok": it answers `unread` *)
(*   all      "raise": the ALL search raises; "bad": typ is not OK;        *)
(*            "ok": it answers every UID of the mailbox                    *)
(*   fetched  the UIDs whose FETCH answers a message (_get_email_info      *)
(*            returns None for the others)                                 *)
(* A call looks only at the UIDs that pass `uid > self.last_uid` when it   *)
(* starts (the cursor only grows in that order during the call), so only   *)
(* for these the server's choices about unread and fetch failures are      *)
(* enumerated: for the others they make no difference.                     *)
(***************************************************************************)
Candidates(n, box) ==
    {uid \in Uids(box) : n.last_uid = NoUid \/ UidGT(uid, n.last_uid)}

Fetchable(n, box) ==
    {Uids(box) \ F : F \in {G \in SUBSET Candidates(n, box) :
                                 Cardinality(G) <= MaxFetchFail}}

Outcomes(n, box) ==
    {[connect |-> FALSE, unseen |-> "raise", unread |-> {}, all |-> "raise",
      fetched |-> {}]}
    \cup
    [connect : {TRUE}, unseen : {"raise"}, unread : {{}},
     all : {"ok", "bad", "raise"}, fetched : Fetchable(n, box)]
    \cup
    [connect : {TRUE}, unseen : {"ok"}, unread : SUBSET Candidates(n, box),
     all : {"ok", "bad", "raise"}, fetched : Fetchable(n, box)]

\* check_and_notify(): the notifier afterwards and the list it returns
\* (<<>> stands for None as well: the callers treat both alike).
CheckAndNotify(n, box, current_time, env) ==
    IF ~env.connect
    THEN [last_uid |-> n.last_uid, mail |-> FALSE, ret |-> <<>>, err |-> "connect",
          examined |-> <<>>]
    ELSE
    LET st0 == [last_uid |-> n.last_uid, new_emails |-> <<>>, processed |-> {},
                examined |-> <<>>]
        st1 == IF env.unseen = "ok"
               THEN UnseenPass(st0, Ascending(env.unread), box, env.fetched,
                               current_time)
               ELSE st0
        all_uids == Ascending(Uids(box))
    IN  IF env.all = "raise"
        THEN [last_uid |-> st1.last_uid, mail |-> FALSE, ret |-> <<>>,
              err |-> "all", examined |-> st1.examined]
        ELSE IF env.all = "bad" \/ all_uids = <<>>
        THEN [last_uid |-> st1.last_uid, mail |-> TRUE, ret |-> st1.new_emails,
              err |-> "none", examined |-> st1.examined]
        ELSE IF st1.last_uid = NoUid
        THEN [last_uid |-> all_uids[Len(all_uids)], mail |-> TRUE, ret |-> <<>>,
              err |-> "none", examined |-> st1.examined]
        ELSE LET st2 == AllPass(st1, all_uids, box, env.fetched, current_time)
             IN [last_uid |-> st2.last_uid, mail |-> TRUE, ret |-> st2.new_emails,
                 err |-> "none", examined |-> st2.examined]

(***************************************************************************)
(* AccountManager                                                          *)
(***************************************************************************)
NoCache == [present |-> FALSE, is_valid |-> FALSE, checked_at |-> 0]

Range(q) == {q[i] : i \in 1..Len(q)}

_is_cache_valid(c, u, current_time) ==
    /\ c[u].present
    /\ current_time - c[u].checked_at < ACCOUNT_CACHE_TTL

\* get_valid_accounts(): `reachable` are the accounts whose test_connection()
\* succeeds when it is run.  Gives the valid accounts and the cache afterwards.
get_valid_accounts(accs, c, current_time, reachable) ==
    LET tested == {u \in Range(accs) : ~_is_cache_valid(c, u, current_time)}
        c2 == [u \in Users |->
                 IF u \in tested
                 THEN [present |-> TRUE, is_valid |-> u \in reachable,
                       checked_at |-> current_time]
                 ELSE c[u]]
    IN [valid |-> {u \in Range(accs) : c2[u].is_valid}, cache |-> c2]

(***************************************************************************)
(* EmailMonitor                                                            *)
(***************************************************************************)
\* EmailNotifier.cleanup(): xmail.py does not define it; its callers use it as
\* the close() of a poller: it logs out, drops the connection, keeps the cursor
\* and does not raise.
cleanup(n) == [n EXCEPT !.mail = FALSE]

\* notifier.text_num = self._text_num, for the notifiers of the set ns; pt is
\* the text_num of each account's poller.
SetPollers(pt, ns, text_num) ==
    [u \in DOMAIN pt |-> IF u \in DOMAIN ns THEN text_num ELSE pt[u]]

\* init_notifiers(): the new _notifiers for the accounts found valid.  The old
\* notifiers are cleaned up after their cursors were read, and dropped.
init_notifiers(old, valid) ==
    LET existing_states == [u \in DOMAIN old |-> old[u].last_uid]
        closed == [u \in DOMAIN old |-> cleanup(old[u])]
    IN [u \in valid |->
          [NewNotifier EXCEPT
              !.last_uid = IF u \in DOMAIN existing_states
                           THEN existing_states[u] ELSE NoUid]]

Unknown == -1

\* _get_dedup_key(): strftime('%Y%m%d%H%M') is the time cut to the minute.
_get_dedup_key(user, info) ==
    <<user, info.subj, IF info.date # NoDate THEN info.date \div 60 ELSE Unknown>>

\* A dedup test that forgets to record the key it lets through.
IsDuplicateNoRecord(d, key, current_time) ==
    LET d1 == IF current_time - d.cleanup_time > DEDUP_CLEANUP_INTERVAL
              THEN [sent |-> {}, cleanup_time |-> current_time]
              ELSE d
    IN [dup |-> key \in d1.sent, d |-> d1]

\* _is_duplicate() on the dedup state d = [sent, cleanup_time].
_is_duplicate(d, key, current_time) ==
    LET d1 == IF current_time - d.cleanup_time > DEDUP_CLEANUP_INTERVAL
              THEN [sent |-> {}, cleanup_time |-> current_time]
              ELSE d
    IN IF key \in d1.sent
       THEN [dup |-> TRUE, d |-> d1]
       ELSE [dup |-> FALSE, d |-> [d1 EXCEPT !.sent = @ \cup {key}]]

\* _send_to_targets(): the targets a send task is created for.
_send_to_targets(tg) == tg

\* The body of `for email_info in result`.  st holds the dedup state d and
\* what the loop did so far: the notifications handed to _send_to_targets
\* (fwd), those found duplicate (dup), and the messages of the latter (dropped).
ProcessEmail(st, user, info, tg, current_time) ==
    LET r == _is_duplicate(st.d, _get_dedup_key(user, info), current_time)
        e == [user |-> user, uid |-> info.uid,
              key |-> _get_dedup_key(user, info), t |-> current_time,
              epoch |-> r.d.cleanup_time, fwd |-> ~r.dup, again |-> FALSE,
              to |-> IF r.dup THEN {} ELSE _send_to_targets(tg)]
    IN IF r.dup
       THEN [st EXCEPT !.d = r.d, !.dup = @ \cup {e},
                       !.dropped = @ \cup {<<user, info.uid>>}]
       ELSE [st EXCEPT !.d = r.d, !.fwd = @ \cup {e}]

RECURSIVE ProcessEmails(_, _, _, _, _)
ProcessEmails(st, user, ret, tg, current_time) ==
    IF ret = <<>> THEN st
    ELSE ProcessEmails(ProcessEmail(st, user, Head(ret), tg, current_time),
                       user, Tail(ret), tg, current_time)

\* The body of `for (user, notifier), result in zip(...)`.
ProcessResult(st, user, res, tg, current_time) ==
    IF res[user].kind = "timeout" THEN st
    ELSE ProcessEmails(st, user, res[user].ret, tg, current_time)

\* A result loop that a failed connection of one account ends: the results
\* after it are not looked at.
RECURSIVE ProcessResultsConnectEnds(_, _, _, _, _)
ProcessResultsConnectEnds(st, users, res, tg, current_time) ==
    IF users = <<>> THEN st
    ELSE IF Head(users) \notin DOMAIN res
    THEN ProcessResultsConnectEnds(st, Tail(users), res, tg, current_time)
    ELSE IF res[Head(users)].kind = "done" /\ res[Head(users)].err = "connect"
    THEN st
    ELSE ProcessResultsConnectEnds(
             ProcessResult(st, Head(users), res, tg, current_time),
             Tail(users), res, tg, current_time)

\* A result loop that a TimeoutError among the results ends.
RECURSIVE ProcessResultsTimeoutEnds(_, _, _, _, _)
ProcessResultsTimeoutEnds(st, users, res, tg, current_time) ==
    IF users = <<>> THEN st
    ELSE IF Head(users) \notin DOMAIN res
    THEN ProcessResultsTimeoutEnds(st, Tail(users), res, tg, current_time)
    ELSE IF res[Head(users)].kind = "timeout"
    THEN st
    ELSE ProcessResultsTimeoutEnds(
             ProcessResult(st, Head(users), res, tg, current_time),
             Tail(users), res, tg, current_time)

RECURSIVE ProcessResults(_, _, _, _, _)
ProcessResults(st, users, res, tg, current_time) ==
    IF users = <<>> THEN st
    ELSE ProcessResults(
             IF Head(users) \in DOMAIN res
             THEN ProcessResult(st, Head(users), res, tg, current_time)
             ELSE st,
             Tail(users), res, tg, current_time)

(***************************************************************************)
(* The environment.                                                        *)
(***************************************************************************)
NoPoll == [user |-> "none"]
NoIO == [f |-> "none"]
NoCollect == [done |-> FALSE]
Pending == [kind |-> "pending"]
NoNotifiers == [u \in {} |-> NewNotifier]
NoResults == [u \in {} |-> Pending]

\* A message arrives; its Date header is the current time or unparseable.
\* An arrival while the checks of a cycle are under way is taken before the
\* cycle (if the account's check sees it) or after it (if not).
Arrive(u, bound) ==
    /\ pc = "idle"
    /\ Len(mailbox["u1"]) + Len(mailbox["u2"]) < bound
    /\ \E d \in {now, NoDate}, s \in Subjects :
          mailbox' = [mailbox EXCEPT ![u] = Append(@, [date |-> d, subj |-> s])]
    /\ msgLog' =
          IF /\ track = "loss" /\ u \in DOMAIN notifiers
             /\ notifiers[u].last_uid # NoUid
          THEN msgLog \cup {<<u, UidOf(Len(mailbox[u]) + 1), "after">>}
          ELSE msgLog
    /\ lastPoll' = NoPoll
    /\ lastCollect' = NoCollect
    /\ UNCHANGED extraVars
    /\ UNCHANGED <<now, notifiers, monitorVars, track, notified, presLog>>

\* Time passes while the loop sleeps: a cycle is over within CHECK_TIMEOUT.
Tick(bound) ==
    /\ pc = "idle"
    /\ now < StartTime + bound * TickLen
    /\ now' = now + TickLen
    /\ lastPoll' = NoPoll
    /\ lastCollect' = NoCollect
    /\ UNCHANGED extraVars
    /\ UNCHANGED <<mailbox, notifiers, monitorVars, track, notified, msgLog,
                   presLog>>

\* What lastPoll records of a call on user u's notifier.
PollRecord(u, env, r) ==
    [user |-> u, pre |-> notifiers[u].last_uid, err |-> r.err,
     ret |-> [i \in 1..Len(r.ret) |-> r.ret[i].uid],
     clean |-> /\ env.connect /\ env.unseen = "ok" /\ env.all = "ok"
               /\ env.fetched = Uids(mailbox[u]),
     connect |-> env.connect, unseen |-> env.unseen, all |-> env.all,
     examined |-> r.examined,
     fetchFailed |-> {r.examined[k] : k \in 1..Len(r.examined)} \ env.fetched]

\* A caller runs check_and_notify() on u's notifier (EmailNotifier.run).
Poll(u) ==
    /\ ~is_running
    /\ u \in DOMAIN notifiers
    /\ \E env \in Outcomes(notifiers[u], mailbox[u]) :
          LET r == CheckAndNotify(notifiers[u], mailbox[u], now, env)
          IN /\ notifiers' = [notifiers EXCEPT
                                 ![u] = [last_uid |-> r.last_uid, mail |-> r.mail]]
             /\ lastPoll' = PollRecord(u, env, r)
    /\ UNCHANGED extraVars
    /\ UNCHANGED <<now, mailbox, monitorVars, historyVars>>

(***************************************************************************)
(* The monitor's operations.                                               *)
(***************************************************************************)
\* The blocking network operations of a step, each with the thread that runs
\* it and whether a wait_for timeout bounds it.  get_valid_accounts() runs
\* test_connection() on every account whose cache entry is missing or stale,
\* in the thread of its caller.
TestOps ==
    {[op |-> "test_connection", user |-> u, thread |-> "loop", timeout |-> FALSE] :
        u \in {a \in Range(accounts) : ~_is_cache_valid(cache, a, now)}}

\* wait_for(to_thread(notifier.check_and_notify), CHECK_TIMEOUT) for every poller
CheckOps(ns) ==
    {[op |-> "check_and_notify", user |-> u, thread |-> "worker", timeout |-> TRUE] :
        u \in DOMAIN ns}

NetLog(ops) == IF track = "net" THEN callLog \cup ops ELSE callLog

\* start(), past its test of _is_running: the flag, the rebuild of the pollers
\* (whose old objects, and the threads still running on them, are dropped) and
\* the new loop task.
StartBody(tg) ==
    /\ is_running' = TRUE
    /\ \E reachable \in SUBSET Range(accounts) :
          LET g == get_valid_accounts(accounts, cache, now, reachable)
          IN /\ cache' = g.cache
             /\ notifiers' = init_notifiers(notifiers, g.valid)
    /\ last_recreate_time' = now
    /\ task' = TRUE
    /\ targets' = tg
    /\ pc' = "idle"
    /\ results' = NoResults
    /\ config' = [config EXCEPT !.poller = SetPollers(@, notifiers', config.text_num)]
    /\ inflight' = {}

\* start(targets, event_map), called when the monitor is stopped
Start(tg) ==
    /\ ~is_running
    /\ StartBody(tg)
    /\ lastPoll' = NoPoll
    /\ lastCollect' = NoCollect
    /\ callLog' = NetLog(TestOps)
    /\ UNCHANGED <<io, stopping, cycles>>
    /\ UNCHANGED <<now, mailbox, sent_emails, sent_emails_cleanup_time,
                   accounts, track, notified, msgLog, presLog>>

\* stop(): the loop task is cancelled where it waits, the pollers are cleaned
\* up and dropped.
Stop ==
    /\ is_running
    /\ is_running' = FALSE
    /\ task' = FALSE
    /\ notifiers' = NoNotifiers
    /\ pc' = "idle"
    /\ results' = NoResults
    /\ lastPoll' = NoPoll
    /\ lastCollect' = NoCollect
    /\ UNCHANGED extraVars
    /\ UNCHANGED <<now, mailbox, targets, last_recreate_time, sent_emails,
                   sent_emails_cleanup_time, accounts, cache, track, notified,
                   msgLog, presLog>>

\* What msgLog keeps of a rebuild that leaves the accounts of out without a
\* poller: the cursor each of them had, in place of what it kept of an earlier
\* exclusion of the account.
ExcludedLog(out) ==
    {e \in msgLog : ~(e[1] \in out /\ e[3] = "excluded")}
        \cup {<<u, notifiers[u].last_uid, "excluded">> :
                 u \in {v \in out : notifiers[v].last_uid # NoUid}}

\* _monitor_loop, from the top of the loop to the gather: the periodic rebuild
\* and the dispatch of one check task per notifier.
CycleStart ==
    /\ is_running /\ task /\ pc = "idle"
    /\ IF now - last_recreate_time > RECREATE_INTERVAL
       THEN /\ \E reachable \in SUBSET Range(accounts) :
                  LET g == get_valid_accounts(accounts, cache, now, reachable)
                  IN /\ cache' = g.cache
                     /\ notifiers' = init_notifiers(notifiers, g.valid)
            /\ last_recreate_time' = now
            /\ inflight' = {}
       ELSE UNCHANGED <<cache, notifiers, last_recreate_time, inflight>>
    /\ IF DOMAIN notifiers' # {}
       THEN /\ pc' = "gather"
            /\ results' = [u \in DOMAIN notifiers' |-> Pending]
       ELSE UNCHANGED <<pc, results>>
    /\ lastPoll' = NoPoll
    /\ lastCollect' = NoCollect
    /\ config' = [config EXCEPT !.poller = SetPollers(@, notifiers', config.text_num)]
    /\ cycles' = IF track = "live" THEN 1 - cycles ELSE cycles
    /\ callLog' = NetLog((IF now - last_recreate_time > RECREATE_INTERVAL
                          THEN TestOps ELSE {}) \cup CheckOps(notifiers'))
    /\ msgLog' = IF track = "gap"
                 THEN ExcludedLog(DOMAIN notifiers \ DOMAIN notifiers')
                 ELSE msgLog
    /\ UNCHANGED <<io, stopping>>
    /\ UNCHANGED <<now, mailbox, is_running, task, targets, sent_emails,
                   sent_emails_cleanup_time, accounts, track, notified,
                   presLog>>

\* The messages the poll moved a set cursor past (in arrival order) while they
\* were inside the recency window.
Passed(u, pre, post) ==
    {<<u, UidOf(i), "passed">> : i \in
        {j \in 1..Len(mailbox[u]) :
            /\ pre # NoUid /\ UidOf(j) > pre /\ UidOf(j) <= post
            /\ mailbox[u][j].date # NoDate
            /\ mailbox[u][j].date > now - RecencyWindow}}

Bump(cnt, u, ret) ==
    [cnt EXCEPT ![u] = [i \in DOMAIN @ |->
        IF \E k \in 1..Len(ret) : ret[k].uid = UidOf(i)
        THEN (IF @[i] < 2 THEN @[i] + 1 ELSE 2)
        ELSE @[i]]]

\* The check task of user u finishes within CHECK_TIMEOUT.
PollDone(u) ==
    /\ pc = "gather" /\ u \in DOMAIN results /\ results[u].kind = "pending"
    /\ \E env \in Outcomes(notifiers[u], mailbox[u]) :
          LET r == CheckAndNotify(notifiers[u], mailbox[u], now, env)
          IN /\ notifiers' = [notifiers EXCEPT
                                 ![u] = [last_uid |-> r.last_uid, mail |-> r.mail]]
             /\ results' = [results EXCEPT
                               ![u] = [kind |-> "done", ret |-> r.ret,
                                       err |-> r.err,
                                       pre |-> notifiers[u].last_uid,
                                       post |-> r.last_uid]]
             /\ notified' = IF track = "restart" THEN Bump(notified, u, r.ret)
                            ELSE notified
             /\ msgLog' = IF track = "loss"
                          THEN msgLog \cup Passed(u, notifiers[u].last_uid, r.last_uid)
                          ELSE msgLog
    /\ lastPoll' = NoPoll
    /\ lastCollect' = NoCollect
    /\ UNCHANGED extraVars
    /\ UNCHANGED <<now, mailbox, is_running, task, targets, last_recreate_time,
                   sent_emails, sent_emails_cleanup_time, accounts, cache, pc,
                   track, presLog>>

\* wait_for gives up on user u's check task: the result is a TimeoutError.  The
\* thread is left behind; what it goes on to do is followed where the threads
\* are tracked, elsewhere it does not get to touch the notifier again.
PollTimeout(u) ==
    /\ pc = "gather" /\ u \in DOMAIN results /\ results[u].kind = "pending"
    /\ results' = [results EXCEPT ![u] = [kind |-> "timeout"]]
    /\ inflight' = IF track \in {"threads", "abandon"}
                   THEN inflight \cup {u} ELSE inflight
    /\ lastPoll' = NoPoll
    /\ lastCollect' = NoCollect
    /\ UNCHANGED <<config, io, callLog, stopping, cycles>>
    /\ UNCHANGED <<now, mailbox, notifiers, is_running, task, targets,
                   last_recreate_time, sent_emails, sent_emails_cleanup_time,
                   accounts, cache, pc, track, notified, msgLog, presLog>>

\* _monitor_loop, from the return of the gather to the sleep: the loop over the
\* results, with the dedup test and the hand-over to the targets.
Collect ==
    /\ pc = "gather"
    /\ \A u \in DOMAIN results : results[u].kind # "pending"
    /\ LET st == ProcessResults(
                    [d |-> [sent |-> sent_emails,
                            cleanup_time |-> sent_emails_cleanup_time],
                     fwd |-> {}, dup |-> {}, dropped |-> {}],
                    accounts, results, targets, now)
           done == {u \in DOMAIN results : results[u].kind = "done"}
       IN /\ sent_emails' = st.d.sent
          /\ sent_emails_cleanup_time' = st.d.cleanup_time
          /\ msgLog' =
                IF track \in {"loss", "abandon"}
                THEN msgLog
                     \cup {<<e.user, e.uid, "sent">> : e \in {f \in st.fwd : f.to # {}}}
                     \cup {<<q[1], q[2], "dup">> : q \in st.dropped}
                ELSE msgLog
          /\ lastCollect' =
                IF track # "monitor" THEN NoCollect ELSE
                [done |-> TRUE,
                 timedOut |-> {u \in DOMAIN results : results[u].kind = "timeout"},
                 connectFailed |-> {u \in done : results[u].err = "connect"},
                 cursorMoved |-> {u \in done : results[u].post # results[u].pre},
                 polled |-> DOMAIN results,
                 completed |-> done,
                 returnedBy |-> [u \in done |->
                                   {<<u, results[u].ret[k].uid>> :
                                       k \in 1..Len(results[u].ret)}],
                 returned |-> UNION {{<<u, results[u].ret[k].uid>> :
                                        k \in 1..Len(results[u].ret)} : u \in done},
                 fwd |-> {<<e.user, e.uid>> : e \in {f \in st.fwd : f.to = targets}},
                 dropped |-> st.dropped]
    /\ pc' = "idle"
    /\ results' = NoResults
    /\ lastPoll' = NoPoll
    /\ UNCHANGED extraVars
    /\ UNCHANGED <<now, mailbox, notifiers, is_running, task, targets,
                   last_recreate_time, accounts, cache, track, notified, presLog>>

\* The result loop is handed one notification of u's mailbox, whichever check
\* returned it: the dedup test and the hand-over to the targets.
Present(u, tg) ==
    /\ \E i \in 1..Len(mailbox[u]) :
          LET st == ProcessEmail(
                       [d |-> [sent |-> sent_emails,
                               cleanup_time |-> sent_emails_cleanup_time],
                        fwd |-> {}, dup |-> {}, dropped |-> {}],
                       u, EmailInfo(mailbox[u], UidOf(i)), tg, now)
          IN /\ sent_emails' = st.d.sent
             /\ sent_emails_cleanup_time' = st.d.cleanup_time
             /\ presLog' = presLog \cup st.dup
                              \cup {[e EXCEPT !.again = (e \in presLog)] : e \in st.fwd}
    /\ UNCHANGED extraVars
    /\ UNCHANGED <<now, mailbox, notifiers, is_running, task, targets,
                   last_recreate_time, accounts, cache, pc, results, lastPoll,
                   track, lastCollect, notified, msgLog>>

(***************************************************************************)
(* The calls of start() and stop() in whatever state the monitor is, with  *)
(* the wait of stop() as a step of its own and the threads of the check    *)
(* tasks that are over.                                                    *)
(***************************************************************************)
\* What a call of start() or stop() can change.
LifecycleState == <<is_running, task, targets, last_recreate_time, notifiers,
                    pc, results, cache, inflight>>

\* What callLog keeps of a call: the state it was made in, whether it left the
\* monitor as it was, whether it created a loop task, and for a stop() the
\* pollers left in _notifiers and the accounts whose connection is open when
\* it returns.
CallRecord(op, running, same, spawned, left, open) ==
    [op |-> op, running |-> running, same |-> same, spawned |-> spawned,
     left |-> left, open |-> open]

\* start() without its test of _is_running
StartCallUnguarded(tg) ==
    /\ StartBody(tg)
    /\ lastPoll' = NoPoll
    /\ lastCollect' = NoCollect
    /\ UNCHANGED <<io, stopping, cycles>>
    /\ UNCHANGED <<now, mailbox, sent_emails, sent_emails_cleanup_time,
                   accounts, track, notified, msgLog, presLog>>
    /\ callLog' = callLog \cup {CallRecord("start", is_running,
                                           LifecycleState' = LifecycleState,
                                           TRUE, DOMAIN notifiers', {})}

\* start(targets, event_map)
StartCall(tg) ==
    /\ IF is_running
       THEN UNCHANGED <<is_running, task, targets, last_recreate_time,
                        notifiers, pc, results, cache, inflight, config>>
       ELSE StartBody(tg)
    /\ lastPoll' = NoPoll
    /\ lastCollect' = NoCollect
    /\ UNCHANGED <<io, stopping, cycles>>
    /\ UNCHANGED <<now, mailbox, sent_emails, sent_emails_cleanup_time,
                   accounts, track, notified, msgLog, presLog>>
    /\ callLog' = callLog \cup {CallRecord("start", is_running,
                                           LifecycleState' = LifecycleState,
                                           ~is_running, DOMAIN notifiers', {})}

\* start() whose init_notifiers() raises (the account list cannot be read, a
\* descriptor is not a string): the flag has been set by then, _notifiers is
\* cleared, and the exception leaves start() before the time of the last
\* rebuild is set and the loop task is created.
StartRaises ==
    /\ ~is_running
    /\ is_running' = TRUE
    /\ notifiers' = NoNotifiers
    /\ inflight' = {}
    /\ lastPoll' = NoPoll
    /\ lastCollect' = NoCollect
    /\ UNCHANGED <<now, mailbox, task, targets, last_recreate_time, sent_emails,
                   sent_emails_cleanup_time, accounts, cache, pc, results,
                   historyVars, config, io, stopping, cycles>>
    /\ callLog' = callLog \cup {CallRecord("start raised", is_running',
                                           LifecycleState' = LifecycleState,
                                           task', DOMAIN notifiers', {})}

\* stop(), up to its wait for the loop task: the flag is cleared and the task
\* cancelled.  The CancelledError reaches the loop where it waits and ends it;
\* the check tasks of a gather are cancelled with it, their threads run on.
StopBegin ==
    /\ IF ~is_running
       THEN UNCHANGED <<is_running, task, pc, results, inflight, stopping>>
       ELSE /\ is_running' = FALSE
            /\ task' = FALSE
            /\ pc' = "idle"
            /\ results' = NoResults
            /\ inflight' = inflight \cup
                              {u \in DOMAIN results : results[u].kind = "pending"}
            /\ stopping' = TRUE
    /\ lastPoll' = NoPoll
    /\ lastCollect' = NoCollect
    /\ UNCHANGED <<now, mailbox, notifiers, targets, last_recreate_time,
                   sent_emails, sent_emails_cleanup_time, accounts, cache,
                   historyVars, config, io, cycles>>
    /\ callLog' = IF is_running THEN callLog
                  ELSE callLog \cup {CallRecord("stop", FALSE,
                                                LifecycleState' = LifecycleState,
                                                FALSE, DOMAIN notifiers', {})}

\* stop(), from the end of its wait (at most STOP_TIMEOUT) to its return:
\* self._task is set to None, every poller is cleaned up and _notifiers is
\* cleared, whatever a start() made during the wait has put there.  A thread
\* that still runs check_and_notify() on a poller is not waited for: it may be
\* in _connect() and hold a new connection when stop() returns.
StopEnd ==
    /\ stopping
    /\ stopping' = FALSE
    /\ task' = FALSE
    /\ notifiers' = NoNotifiers
    /\ \E open \in SUBSET (inflight \cap DOMAIN notifiers) :
          callLog' = callLog \cup {CallRecord("stop", TRUE, FALSE, FALSE,
                                              DOMAIN notifiers', open)}
    /\ inflight' = {}
    /\ lastPoll' = NoPoll
    /\ lastCollect' = NoCollect
    /\ UNCHANGED <<now, mailbox, is_running, targets, last_recreate_time,
                   sent_emails, sent_emails_cleanup_time, accounts, cache, pc,
                   results, historyVars, config, io, cycles>>

\* A thread left behind by a check task that is over runs check_and_notify()
\* to its end on the poller it was started on; what it returns is dropped.
ThreadEnd(u) ==
    /\ u \in inflight /\ u \in DOMAIN notifiers
    /\ \E env \in Outcomes(notifiers[u], mailbox[u]) :
          LET r == CheckAndNotify(notifiers[u], mailbox[u], now, env)
          IN /\ notifiers' = [notifiers EXCEPT
                                 ![u] = [last_uid |-> r.last_uid, mail |-> r.mail]]
             /\ msgLog' = IF track = "abandon"
                          THEN msgLog \cup {<<u, r.ret[k].uid, "abandoned">> :
                                               k \in 1..Len(r.ret)}
                          ELSE msgLog
    /\ inflight' = inflight \ {u}
    /\ lastPoll' = NoPoll
    /\ lastCollect' = NoCollect
    /\ UNCHANGED <<now, mailbox, monitorVars, track, notified, presLog, config,
                   io, callLog, stopping, cycles>>

(***************************************************************************)
(* The plugin of main.py (EmailNotixion): it keeps its own pollers and     *)
(* runs its own loop over them.                                            *)
(***************************************************************************)
\* _init_notifiers(): _notifiers is cleared and a new EmailNotifier is made for
\* every configured account whose connection test succeeds.
_init_notifiers(accs, reachable) ==
    [u \in Range(accs) \cap reachable |-> NewNotifier]

\* The check tasks that are still running keep the EmailNotifier they were
\* started on when _notifiers is replaced under them.
Orphan(res, ns) ==
    [u \in DOMAIN res |->
        IF res[u].kind = "pending" /\ "obj" \notin DOMAIN res[u]
        THEN [kind |-> "pending", obj |-> ns[u]]
        ELSE res[u]]

\* _init_notifiers() called by a command handler while the service runs,
\* wherever the loop stands; accs and c are the accounts and the configuration
\* the handler has just stored.
Reinit(accs, c) ==
    /\ \E reachable \in SUBSET Range(accs) :
          notifiers' = _init_notifiers(accs, reachable)
    /\ results' = Orphan(results, notifiers)
    /\ config' = [c EXCEPT !.poller = SetPollers(@, notifiers', c.text_num)]

\* _start_email_service(), called when the service is stopped
MainStart ==
    /\ ~is_running
    /\ is_running' = TRUE
    /\ \E reachable \in SUBSET Range(accounts) :
          notifiers' = _init_notifiers(accounts, reachable)
    /\ last_recreate_time' = now
    /\ task' = TRUE
    /\ pc' = "idle"
    /\ results' = NoResults
    /\ config' = [config EXCEPT !.poller = SetPollers(@, notifiers', config.text_num)]
    /\ lastPoll' = NoPoll
    /\ lastCollect' = NoCollect
    /\ UNCHANGED <<now, mailbox, targets, sent_emails, sent_emails_cleanup_time,
                   accounts, cache, historyVars, inflight, io,
                   callLog, stopping, cycles>>

\* What callLog keeps of the top of a cycle: whether the rebuild was due,
\* whether the cycle did as its due time says (the rebuild timestamp set to
\* the time of the cycle, or the timestamp and the pollers left as they
\* were), and the accounts of the old PollerSet whose connection the rebuild
\* dropped open (self._notifiers.clear() with no logout).
CycleRecord(due, timely, open) ==
    [op |-> "cycle", due |-> due, timely |-> timely, open |-> open]

\* self._notifiers.items(): the pollers in the order they were inserted, which
\* is the order of the configured accounts.
DictOrder(accs, ns) == SelectSeq(accs, LAMBDA a : a \in DOMAIN ns)

\* zip(self._notifiers.items(), results): the k-th poller now in _notifiers is
\* paired with the result of the k-th check task; every email of the result
\* is sent under the user of that pair (user), whoever's mailbox it came from
\* (owner).
ZipAttribution(cur, order, res) ==
    UNION {{[user |-> cur[k], owner |-> order[k], uid |-> res[order[k]].ret[j].uid] :
               j \in 1..(IF res[order[k]].kind = "done"
                         THEN Len(res[order[k]].ret) ELSE 0)} :
           k \in 1..(IF Len(cur) < Len(order) THEN Len(cur) ELSE Len(order))}

\* _email_monitor_loop, from the top of the loop to the gather
MainCycleStart ==
    /\ is_running /\ task /\ pc = "idle"
    /\ IF now - last_recreate_time > RECREATE_INTERVAL
       THEN /\ \E reachable \in SUBSET Range(accounts) :
                  notifiers' = _init_notifiers(accounts, reachable)
            /\ last_recreate_time' = now
       ELSE UNCHANGED <<notifiers, last_recreate_time>>
    /\ IF DOMAIN notifiers' # {}
       THEN /\ pc' = "gather"
            /\ results' = [u \in DOMAIN notifiers' |-> Pending]
       ELSE UNCHANGED <<pc, results>>
    /\ config' = [config EXCEPT !.poller = SetPollers(@, notifiers', config.text_num)]
    /\ lastPoll' = NoPoll
    /\ lastCollect' = NoCollect
    /\ io' = IF DOMAIN notifiers' # {}
             THEN [f |-> "gather", order |-> DictOrder(accounts, notifiers')]
             ELSE io
    /\ UNCHANGED <<now, mailbox, is_running, task, targets, sent_emails,
                   sent_emails_cleanup_time, accounts, cache, historyVars,
                   inflight, stopping, cycles>>
    /\ callLog' = callLog \cup
          {CycleRecord(now - last_recreate_time > RECREATE_INTERVAL,
                       IF now - last_recreate_time > RECREATE_INTERVAL
                       THEN last_recreate_time' = now
                       ELSE /\ last_recreate_time' = last_recreate_time
                            /\ notifiers' = notifiers,
                       IF now - last_recreate_time > RECREATE_INTERVAL
                       THEN {u \in DOMAIN notifiers : notifiers[u].mail}
                       ELSE {})}

\* The check task of user u finishes within 30 seconds; its thread ran on the
\* EmailNotifier it was started on.
MainPollDone(u) ==
    /\ pc = "gather" /\ u \in DOMAIN results /\ results[u].kind = "pending"
    /\ LET orphan == "obj" \in DOMAIN results[u]
           n == IF orphan THEN results[u].obj ELSE notifiers[u]
       IN \E env \in Outcomes(n, mailbox[u]) :
             LET r == CheckAndNotify(n, mailbox[u], now, env)
             IN /\ notifiers' =
                      IF orphan THEN notifiers
                      ELSE [notifiers EXCEPT
                               ![u] = [last_uid |-> r.last_uid, mail |-> r.mail]]
                /\ results' = [results EXCEPT
                                  ![u] = [kind |-> "done", ret |-> r.ret,
                                          err |-> r.err, pre |-> n.last_uid,
                                          post |-> r.last_uid]]
    /\ lastPoll' = NoPoll
    /\ lastCollect' = NoCollect
    /\ UNCHANGED <<now, mailbox, is_running, task, targets, last_recreate_time,
                   sent_emails, sent_emails_cleanup_time, accounts, cache, pc,
                   historyVars, extraVars>>

\* _email_monitor_loop, from the return of the gather to the sleep: every
\* email of every result is handed to the targets (there is no dedup test).
MainCollect ==
    /\ pc = "gather"
    /\ \A u \in DOMAIN results : results[u].kind # "pending"
    /\ pc' = "idle"
    /\ results' = NoResults
    /\ lastPoll' = NoPoll
    /\ lastCollect' = [done |-> TRUE,
                       attributed |-> ZipAttribution(
                           DictOrder(accounts, notifiers), io.order, results)]
    /\ io' = NoIO
    /\ UNCHANGED <<now, mailbox, notifiers, is_running, task, targets,
                   last_recreate_time, sent_emails, sent_emails_cleanup_time,
                   accounts, cache, track, notified, msgLog, presLog,
                   config, inflight, callLog, stopping, cycles>>

\* _save_accounts(accs): the list is stored and, if the service runs, the
\* pollers are rebuilt at once.
_save_accounts(accs) ==
    /\ accounts' = accs
    /\ IF is_running
       THEN Reinit(accs, config)
       ELSE UNCHANGED <<notifiers, results, config>>
    /\ lastPoll' = NoPoll
    /\ lastCollect' = NoCollect
    /\ UNCHANGED <<now, mailbox, is_running, task, targets, last_recreate_time,
                   sent_emails, sent_emails_cleanup_time, cache, pc,
                   historyVars, inflight, io, callLog, stopping, cycles>>

\* _add_account(entry)
AddAccount(u) ==
    /\ u \notin Range(accounts)
    /\ _save_accounts(Append(accounts, u))

\* _del_account(user)
DelAccount(u) ==
    /\ u \in Range(accounts)
    /\ _save_accounts(SelectSeq(accounts, LAMBDA a : a # u))

\* _update_config(key, value, min_value): the value, raised to the floor, is
\* stored and, if the service runs, the pollers are rebuilt at once.
_update_config(key, value, min_value) ==
    /\ LET v == IF value > min_value THEN value ELSE min_value
           c == IF key = "interval" THEN [config EXCEPT !.interval = v]
                ELSE [config EXCEPT !.text_num = v]
       IN IF is_running
          THEN Reinit(accounts, c)
          ELSE /\ config' = c
               /\ UNCHANGED <<notifiers, results>>
    /\ lastPoll' = NoPoll
    /\ lastCollect' = NoCollect
    /\ UNCHANGED <<now, mailbox, is_running, task, targets, last_recreate_time,
                   sent_emails, sent_emails_cleanup_time, accounts, cache, pc,
                   historyVars, inflight, io, callLog, stopping, cycles>>

\* The command "email interval <sec>" (sec in half seconds)
CmdInterval(sec) ==
    /\ sec > 0
    /\ _update_config("interval", sec, MIN_INTERVAL)

\* The command "email text <num>"
CmdText(num) ==
    /\ num >= MIN_TEXT_NUM
    /\ _update_config("text_num", num, MIN_TEXT_NUM)

(***************************************************************************)
(* The loop iterations in which a step raises.                             *)
(***************************************************************************)
\* What lastCollect keeps of an iteration that an exception ended.
Raised(step) == [done |-> FALSE, raised |-> step]

\* _monitor_loop, an iteration whose rebuild raises (the account list cannot
\* be read): _notifiers is cleared by then and the time of the last rebuild
\* is not set.  The loop's handler logs the exception and sleeps.
CycleStartRaises ==
    /\ is_running /\ task /\ pc = "idle"
    /\ now - last_recreate_time > RECREATE_INTERVAL
    /\ notifiers' = NoNotifiers
    /\ inflight' = {}
    /\ cycles' = IF track = "live" THEN 1 - cycles ELSE cycles
    /\ lastPoll' = NoPoll
    /\ lastCollect' = Raised("rebuild")
    /\ UNCHANGED <<now, mailbox, is_running, task, targets, last_recreate_time,
                   sent_emails, sent_emails_cleanup_time, accounts, cache, pc,
                   results, track, notified, msgLog, presLog, config, io,
                   callLog, stopping>>

\* An exception of the result loop with no handler in the loop: it ends the
\* loop task.
CollectRaisesUncaught ==
    /\ pc = "gather"
    /\ \A u \in DOMAIN results : results[u].kind # "pending"
    /\ \E u \in DOMAIN results :
          results[u].kind = "done" /\ results[u].ret # <<>>
    /\ task' = FALSE
    /\ pc' = "idle"
    /\ results' = NoResults
    /\ lastPoll' = NoPoll
    /\ lastCollect' = Raised("delivery")
    /\ UNCHANGED <<now, mailbox, notifiers, is_running, targets,
                   last_recreate_time, sent_emails, sent_emails_cleanup_time,
                   accounts, cache, track, notified, msgLog, presLog,
                   extraVars>>

\* _monitor_loop, from the return of the gather: the result loop raises when
\* it comes to the first email to hand over (the dedup key or the send call
\* fails).  The loop's handler logs the exception and sleeps; the results of
\* the iteration are dropped.
CollectRaises ==
    /\ pc = "gather"
    /\ \A u \in DOMAIN results : results[u].kind # "pending"
    /\ \E u \in DOMAIN results :
          results[u].kind = "done" /\ results[u].ret # <<>>
    /\ task' = task
    /\ pc' = "idle"
    /\ results' = NoResults
    /\ lastPoll' = NoPoll
    /\ lastCollect' = Raised("delivery")
    /\ UNCHANGED <<now, mailbox, notifiers, is_running, targets,
                   last_recreate_time, sent_emails, sent_emails_cleanup_time,
                   accounts, cache, track, notified, msgLog, presLog,
                   extraVars>>

\* _monitor_loop, the result loop when the send to a target never completes:
\* the first notification of the results is not a duplicate, a send task is
\* created for every target and the loop waits in `await asyncio.gather(...)`
\* of _send_to_targets, which has no timeout.
CollectHangs ==
    /\ pc = "gather"
    /\ \A u \in DOMAIN results : results[u].kind # "pending"
    /\ targets # {}
    /\ LET first == SelectSeq(accounts,
                         LAMBDA a : /\ a \in DOMAIN results
                                    /\ results[a].kind = "done"
                                    /\ results[a].ret # <<>>)
       IN /\ first # <<>>
          /\ LET u == Head(first)
                 r == _is_duplicate([sent |-> sent_emails,
                                     cleanup_time |-> sent_emails_cleanup_time],
                                    _get_dedup_key(u, Head(results[u].ret)), now)
             IN /\ ~r.dup
                /\ sent_emails' = r.d.sent
                /\ sent_emails_cleanup_time' = r.d.cleanup_time
                /\ lastCollect' = [done |-> FALSE, hung |-> TRUE,
                                   attempted |-> _send_to_targets(targets)]
    /\ pc' = "send"
    /\ lastPoll' = NoPoll
    /\ UNCHANGED extraVars
    /\ UNCHANGED <<now, mailbox, notifiers, is_running, task, targets,
                   last_recreate_time, accounts, cache, results, track,
                   notified, msgLog, presLog>>

(***************************************************************************)
(* The hand-over of one notification to the registered targets.            *)
(***************************************************************************)
\* list(self._targets): the registered targets in the order the loop takes them
TargetOrder == <<"t1", "t2", "t3">>
AllTargets == Range(TargetOrder)
SendOutcomes == {"ok", "raise", "false"}
NoSends == [attempted |-> {}, errors |-> {}, missing |-> {}]

\* The send tasks of the targets of order, run as gather(...,
\* return_exceptions=True) runs them: every task to its end, an exception kept
\* as that task's result and logged.
RECURSIVE Gather(_, _, _, _, _)
Gather(order, tg, event_map, outcome, acc) ==
    IF order = <<>> THEN acc
    ELSE LET t == Head(order)
             next == IF t \notin tg THEN acc
                     ELSE IF t \notin event_map
                     THEN [acc EXCEPT !.missing = @ \cup {t}]
                     ELSE [acc EXCEPT !.attempted = @ \cup {t},
                                      !.errors = IF outcome[t] = "ok" THEN @
                                                 ELSE @ \cup {t}]
         IN Gather(Tail(order), tg, event_map, outcome, next)

\* The send tasks awaited one after the other, the first exception ending the
\* hand-over.
RECURSIVE AwaitEach(_, _, _, _, _)
AwaitEach(order, tg, event_map, outcome, acc) ==
    IF order = <<>> THEN acc
    ELSE LET t == Head(order)
             next == IF t \notin tg THEN acc
                     ELSE IF t \notin event_map
                     THEN [acc EXCEPT !.missing = @ \cup {t}]
                     ELSE [acc EXCEPT !.attempted = @ \cup {t},
                                      !.errors = IF outcome[t] = "ok" THEN @
                                                 ELSE @ \cup {t}]
         IN IF t \in tg /\ t \in event_map /\ outcome[t] = "raise" THEN next
            ELSE AwaitEach(Tail(order), tg, event_map, outcome, next)

SendNotificationsAwaitEach(tg, event_map, outcome) ==
    IF tg = {} THEN NoSends
    ELSE AwaitEach(TargetOrder, tg, event_map, outcome, NoSends)

\* _send_notifications_to_targets() / _send_to_targets(): the targets a send
\* was attempted for, those whose failure was logged, and those left out for
\* want of an event.
_send_notifications_to_targets(tg, event_map, outcome) ==
    IF tg = {} THEN NoSends
    ELSE Gather(TargetOrder, tg, event_map, outcome, NoSends)

\* One notification is handed to the targets.
SendNotification ==
    /\ io.f = "input"
    /\ io' = [io EXCEPT !.f = "_send_notifications_to_targets",
                        !.out = _send_notifications_to_targets(
                                    io.targets, io.event_map, io.outcome)]
    /\ UNCHANGED <<now, mailbox, notifiers, monitorVars, lastPoll, historyVars,
                   config, inflight, callLog, stopping, cycles>>

\* `if not self._is_duplicate(...): await self._send_to_targets(...)` for one
\* notification of u's mailbox, with any registered targets, any of them with
\* an event and any outcome of the sends; the history keeps the targets the
\* notification reached.
Deliver(u) ==
    /\ \E i \in 1..Len(mailbox[u]), tg \in SUBSET Targets,
          event_map \in SUBSET Targets, o \in SendOutcomes :
          LET info == EmailInfo(mailbox[u], UidOf(i))
              key == _get_dedup_key(u, info)
              r == _is_duplicate([sent |-> sent_emails,
                                  cleanup_time |-> sent_emails_cleanup_time],
                                 key, now)
              out == IF r.dup THEN NoSends
                     ELSE _send_notifications_to_targets(
                              tg, event_map, [t \in AllTargets |-> o])
          IN /\ sent_emails' = r.d.sent
             /\ sent_emails_cleanup_time' = r.d.cleanup_time
             /\ presLog' = presLog \cup
                    {[key |-> key, epoch |-> r.d.cleanup_time, fwd |-> ~r.dup,
                      to |-> IF r.dup THEN {} ELSE tg,
                      delivered |-> out.attempted \ out.errors]}
    /\ UNCHANGED extraVars
    /\ UNCHANGED <<now, mailbox, notifiers, is_running, task, targets,
                   last_recreate_time, accounts, cache, pc, results, lastPoll,
                   track, lastCollect, notified, msgLog>>

(***************************************************************************)
(* The account descriptors: strings "host,user,password", here sequences  *)
(* of characters.                                                          *)
(***************************************************************************)
DescChars == {"a", ",", " "}
Descriptors == UNION {[1..n -> DescChars] : n \in 0..MaxDescLen}
\* A descriptor that parses, over characters of its own.
OtherAccount == <<"b", ",", "b", ",", "b">>
NoParse == <<>>
NoPollers == [u \in {} |-> NoParse]

\* account.split(',')
RECURSIVE SplitFrom(_, _, _)
SplitFrom(s, parts, cur) ==
    IF s = <<>> THEN Append(parts, cur)
    ELSE IF Head(s) = ","
    THEN SplitFrom(Tail(s), Append(parts, cur), <<>>)
    ELSE SplitFrom(Tail(s), parts, Append(cur, Head(s)))

split(s) == SplitFrom(s, <<>>, <<>>)

\* part.strip()
RECURSIVE lstrip(_)
lstrip(s) ==
    IF s # <<>> /\ Head(s) = " " THEN lstrip(Tail(s)) ELSE s

RECURSIVE rstrip(_)
rstrip(s) ==
    IF s # <<>> /\ s[Len(s)] = " " THEN rstrip(SubSeq(s, 1, Len(s) - 1)) ELSE s

strip(s) == rstrip(lstrip(s))

\* AccountManager.parse_account(): (host, user, password), or None
parse_account(account) ==
    LET parts == split(account)
    IN IF Len(parts) # 3 THEN NoParse
       ELSE LET host == strip(parts[1])
                user == strip(parts[2])
                password == strip(parts[3])
            IN IF host = <<>> \/ user = <<>> \/ password = <<>> THEN NoParse
               ELSE <<host, user, password>>

\* A validation loop that the first descriptor that does not parse ends.
ValidAccountsStopAtMalformed(accs, reach) ==
    {i \in 1..Len(accs) : /\ parse_account(accs[i]) # NoParse
                          /\ reach[i]
                          /\ \A j \in 1..(i - 1) : parse_account(accs[j]) # NoParse}

\* get_valid_accounts() of a manager whose cache is empty: the positions of
\* the descriptors that parse and pass test_connection() (reach).
valid_accounts(accs, reach) ==
    {i \in 1..Len(accs) : /\ parse_account(accs[i]) # NoParse
                          /\ reach[i]}

\* The loop of init_notifiers() over the valid accounts: one EmailNotifier per
\* user, a later descriptor of the same user replacing an earlier one.
NotifiersOf(accs, valid) ==
    LET user(i) == parse_account(accs[i])[2]
        last(u) == CHOOSE i \in valid :
                      /\ user(i) = u
                      /\ \A j \in valid : user(j) = u => j <= i
    IN [u \in {user(i) : i \in valid} |->
          [host |-> parse_account(accs[last(u)])[1],
           password |-> parse_account(accs[last(u)])[3]]]

\* start() on a fresh monitor and the first cycle: the pollers built from the
\* configured descriptors and the accounts a check task is created for.
BuildPollers ==
    /\ io.f = "accounts"
    /\ LET ns == NotifiersOf(io.accounts, valid_accounts(io.accounts, io.reach))
       IN io' = [io EXCEPT !.f = "init_notifiers", !.out = ns,
                           !.dispatched = DOMAIN ns]
    /\ UNCHANGED <<now, mailbox, notifiers, monitorVars, lastPoll, historyVars,
                   config, inflight, callLog, stopping, cycles>>

\* The values a caller hands to the constructor and to the setters.
TextNumValues == {0, MIN_TEXT_NUM - 1, MIN_TEXT_NUM, DEFAULT_TEXT_NUM}
IntervalValues == {0, MIN_INTERVAL, 2 * DEFAULT_INTERVAL}

\* monitor.interval = value (in half seconds)
SetInterval(value) ==
    /\ config' = [config EXCEPT
                     !.interval = IF value > MIN_INTERVAL THEN value ELSE MIN_INTERVAL]
    /\ UNCHANGED <<now, mailbox, notifiers, monitorVars, lastPoll, historyVars,
                   inflight, io, callLog, stopping, cycles>>

\* monitor.text_num = value
SetTextNum(value) ==
    /\ LET n == IF value > MIN_TEXT_NUM THEN value ELSE MIN_TEXT_NUM
       IN config' = [config EXCEPT !.text_num = n,
                                   !.poller = SetPollers(@, notifiers, n)]
    /\ UNCHANGED <<now, mailbox, notifiers, monitorVars, lastPoll, historyVars,
                   inflight, io, callLog, stopping, cycles>>

\* _process_content() is applied to a body text.
ProcessContent ==
    /\ io.f = "input"
    /\ io' = [io EXCEPT !.f = "_process_content",
                        !.out = _process_content(io.text, io.n)]
    /\ UNCHANGED <<now, mailbox, notifiers, monitorVars, lastPoll, historyVars,
                   config, inflight, callLog, stopping, cycles>>

\* _get_email_content() cuts a subject.
ProcessSubject ==
    /\ io.f = "input"
    /\ io' = [io EXCEPT !.f = "subject", !.out = TruncateSubject(io.text, io.n)]
    /\ UNCHANGED <<now, mailbox, notifiers, monitorVars, lastPoll, historyVars,
                   config, inflight, callLog, stopping, cycles>>

(***************************************************************************)
(* Specifications.                                                         *)
(***************************************************************************)
InitCommon ==
    /\ now = StartTime
    /\ mailbox = [u \in Users |-> <<>>]
    /\ is_running = FALSE
    /\ task = FALSE
    /\ targets = {}
    /\ last_recreate_time = 0
    /\ sent_emails = {}
    /\ sent_emails_cleanup_time = 0
    /\ cache = [u \in Users |-> NoCache]
    /\ pc = "idle"
    /\ results = NoResults
    /\ lastPoll = NoPoll
    /\ lastCollect = NoCollect
    /\ notified = [u \in Users |-> [i \in 1..MaxMsgs |-> 0]]
    /\ msgLog = {}
    /\ presLog = {}

\* The monitor as constructed with the default character budget; no thread,
\* no function applied, no call made.
InitExtra ==
    /\ config = [interval |-> 2 * DEFAULT_INTERVAL, text_num |-> DEFAULT_TEXT_NUM,
                 poller |-> [u \in Users |-> DEFAULT_TEXT_NUM]]
    /\ inflight = {}
    /\ io = NoIO
    /\ callLog = {}
    /\ stopping = FALSE
    /\ cycles = 0

\* One EmailNotifier, polled by its own caller.
Init ==
    /\ InitCommon
    /\ InitExtra
    /\ track = "poll"
    /\ accounts = <<>>
    /\ notifiers = [u \in {"u1"} |-> NewNotifier]

Next ==
    \/ Arrive("u1", MaxMsgs)
    \/ Tick(MaxTicks)
    \/ Poll("u1")

Spec == Init /\ [][Next]_vars

\* One EmailNotifier polled while messages arrive, the clock standing still.
NextCall ==
    \/ Arrive("u1", MaxCallMsgs)
    \/ Poll("u1")

SpecCall == Init /\ [][NextCall]_vars

\* The monitor with one account, started and stopped at will; the history
\* counts the polls that returned each message.
InitOne ==
    /\ InitCommon
    /\ InitExtra
    /\ track = "restart"
    /\ accounts = <<"u1">>
    /\ notifiers = NoNotifiers

NextOne ==
    \/ Arrive("u1", MaxMonitorMsgs)
    \/ Tick(MaxTicks)
    \/ Start(Targets)
    \/ Stop
    \/ CycleStart
    \/ PollDone("u1")
    \/ Collect

SpecOne == InitOne /\ [][NextOne]_vars

\* The dedup stage of the result loop, handed the notifications of one
\* account in any order and at any time; the history keeps what it was given.
InitDedup ==
    /\ InitCommon
    /\ InitExtra
    /\ track = "dedup"
    /\ accounts = <<"u1">>
    /\ notifiers = NoNotifiers

NextDedup ==
    \/ Arrive("u1", MaxMonitorMsgs)
    \/ Tick(MaxTicks)
    \/ Present("u1", Targets)

SpecDedup == InitDedup /\ [][NextDedup]_vars

\* The dedup stage together with the hand-over that follows it; the history
\* keeps which targets each notification reached.
InitDelivery ==
    /\ InitCommon
    /\ InitExtra
    /\ track = "delivery"
    /\ accounts = <<"u1">>
    /\ notifiers = NoNotifiers

NextDelivery ==
    \/ Arrive("u1", MaxMonitorMsgs)
    \/ Tick(MaxTicks)
    \/ Deliver("u1")

SpecDelivery == InitDelivery /\ [][NextDelivery]_vars

\* The running monitor with two accounts; the history keeps what the last
\* result loop did.
InitMonitor ==
    /\ InitCommon
    /\ InitExtra
    /\ track = "monitor"
    /\ accounts = <<"u1", "u2">>
    /\ notifiers = NoNotifiers

NextMonitor ==
    \/ \E u \in Users : Arrive(u, MaxMonitorMsgs)
    \/ Tick(MaxMonitorTicks)
    \/ Start(Targets)
    \/ CycleStart
    \/ \E u \in Users : PollDone(u)
    \/ \E u \in Users : PollTimeout(u)
    \/ Collect

SpecMonitor == InitMonitor /\ [][NextMonitor]_vars

\* The same monitor; the history keeps what happened to each message.
InitLoss ==
    /\ InitCommon
    /\ InitExtra
    /\ track = "loss"
    /\ accounts = <<"u1", "u2">>
    /\ notifiers = NoNotifiers

SpecLoss == InitLoss /\ [][NextMonitor]_vars

\* The extraction of the excerpt and of the subject, on any text and budget.
InitText ==
    /\ InitCommon
    /\ track = "text"
    /\ accounts = <<>>
    /\ notifiers = NoNotifiers
    /\ config = [interval |-> 2 * DEFAULT_INTERVAL, text_num |-> DEFAULT_TEXT_NUM,
                 poller |-> [u \in Users |-> DEFAULT_TEXT_NUM]]
    /\ inflight = {}
    /\ callLog = {}
    /\ stopping = FALSE
    /\ cycles = 0
    /\ io \in [f : {"input"}, text : Texts, n : 0..MaxBudget, out : {<<>>}]

NextText ==
    \/ ProcessContent
    \/ ProcessSubject

SpecText == InitText /\ [][NextText]_vars

\* The monitor with start() and stop() called in any state, one call at a
\* time, and the threads of its check tasks.
InitThreads ==
    /\ InitCommon
    /\ InitExtra
    /\ track = "threads"
    /\ accounts = <<"u1", "u2">>
    /\ notifiers = NoNotifiers

NextThreads ==
    \/ (~stopping /\ StartCall(Targets))
    \/ StopBegin
    \/ StopEnd
    \/ CycleStart
    \/ \E u \in Users : PollDone(u) \/ PollTimeout(u) \/ ThreadEnd(u)
    \/ Collect

SpecThreads == InitThreads /\ [][NextThreads]_vars

\* The check task of a poller that stop() has dropped from _notifiers in the
\* meantime is over: the result loop, which goes through _notifiers, has no
\* poller left to pair its result with.
OrphanDone(u) ==
    /\ pc = "gather" /\ u \in DOMAIN results /\ results[u].kind = "pending"
    /\ u \notin DOMAIN notifiers
    /\ results' = [results EXCEPT
                      ![u] = [kind |-> "done", ret |-> <<>>, err |-> "none",
                              pre |-> NoUid, post |-> NoUid]]
    /\ lastPoll' = NoPoll
    /\ lastCollect' = NoCollect
    /\ UNCHANGED extraVars
    /\ UNCHANGED <<now, mailbox, notifiers, is_running, task, targets,
                   last_recreate_time, sent_emails, sent_emails_cleanup_time,
                   accounts, cache, pc, track, notified, msgLog, presLog>>

\* The calls of start() and stop() one at a time, some start() failing in
\* its rebuild of the pollers.
NextFailedStart ==
    \/ (~stopping /\ StartCall(Targets))
    \/ (~stopping /\ StartRaises)
    \/ StopBegin
    \/ StopEnd
    \/ CycleStart
    \/ \E u \in Users : PollDone(u) \/ PollTimeout(u) \/ ThreadEnd(u)
    \/ Collect

SpecFailedStart == InitThreads /\ [][NextFailedStart]_vars

\* The same calls, a start() being made also while a stop() is inside its
\* wait for the cancelled loop task.
NextOverlap ==
    \/ StartCall(Targets)
    \/ StopBegin
    \/ StopEnd
    \/ CycleStart
    \/ \E u \in DOMAIN notifiers : PollDone(u) \/ PollTimeout(u) \/ ThreadEnd(u)
    \/ \E u \in Users : OrphanDone(u)
    \/ Collect

SpecOverlap == InitThreads /\ [][NextOverlap]_vars

\* The running monitor with one account over several rebuilds; the history
\* keeps the cursor the account had when a rebuild left it without a poller.
InitGap ==
    /\ InitCommon
    /\ InitExtra
    /\ track = "gap"
    /\ accounts = <<"u1">>
    /\ notifiers = NoNotifiers

NextGap ==
    \/ Arrive("u1", MaxMonitorMsgs)
    \/ Tick(MaxGapTicks)
    \/ Start(Targets)
    \/ CycleStart
    \/ PollDone("u1")
    \/ Collect

SpecGap == InitGap /\ [][NextGap]_vars

\* The running monitor with one account and the threads of the checks it
\* gave up on; the history keeps the messages such a thread returned to
\* nobody and the messages that were sent.
InitAbandon ==
    /\ InitCommon
    /\ InitExtra
    /\ track = "abandon"
    /\ accounts = <<"u1">>
    /\ notifiers = NoNotifiers

NextAbandon ==
    \/ Arrive("u1", MaxMonitorMsgs)
    \/ Tick(MaxMonitorTicks)
    \/ Start(Targets)
    \/ CycleStart
    \/ PollDone("u1")
    \/ PollTimeout("u1")
    \/ ThreadEnd("u1")
    \/ Collect

SpecAbandon == InitAbandon /\ [][NextAbandon]_vars

\* The running monitor with two accounts; the history keeps the blocking
\* network operations and the thread each ran on.
InitNet ==
    /\ InitCommon
    /\ InitExtra
    /\ track = "net"
    /\ accounts = <<"u1", "u2">>
    /\ notifiers = NoNotifiers

NextNet ==
    \/ \E u \in Users : Arrive(u, MaxMainMsgs)
    \/ Tick(MaxMonitorTicks)
    \/ Start(Targets)
    \/ Stop
    \/ CycleStart
    \/ \E u \in Users : PollDone(u)
    \/ \E u \in Users : PollTimeout(u)
    \/ Collect

SpecNet == InitNet /\ [][NextNet]_vars

\* The plugin of main.py: its service started, its loop, and the commands
\* that change the accounts, the interval and the character budget.
InitMain ==
    /\ InitCommon
    /\ InitExtra
    /\ track = "main"
    /\ accounts = <<"u1", "u2">>
    /\ notifiers = NoNotifiers

NextMain ==
    \/ \E u \in Users : Arrive(u, MaxMainMsgs)
    \/ Tick(MaxMonitorTicks)
    \/ MainStart
    \/ MainCycleStart
    \/ \E u \in Users : MainPollDone(u) \/ PollTimeout(u)
    \/ MainCollect
    \/ \E u \in Users : AddAccount(u) \/ DelAccount(u)
    \/ \E v \in IntervalValues : CmdInterval(v)
    \/ \E v \in TextNumValues : CmdText(v)

SpecMain == InitMain /\ [][NextMain]_vars

\* The running monitor with iterations that raise.  The event loop runs the
\* loop task whenever it can go on: its sleep ends, every check task is over
\* within CHECK_TIMEOUT, the gather returns.
InitLive ==
    /\ InitCommon
    /\ InitExtra
    /\ track = "live"
    /\ accounts = <<"u1", "u2">>
    /\ notifiers = NoNotifiers

LoopStep ==
    \/ CycleStart
    \/ CycleStartRaises
    \/ \E u \in Users : PollDone(u) \/ PollTimeout(u)
    \/ Collect
    \/ CollectRaises

NextLive ==
    \/ \E u \in Users : Arrive(u, MaxMainMsgs)
    \/ Tick(MaxMonitorTicks)
    \/ Start(Targets)
    \/ LoopStep

SpecLive == InitLive /\ [][NextLive]_vars /\ WF_vars(LoopStep)

\* The same loop with sends that never complete.
HangLoopStep ==
    \/ CycleStart
    \/ \E u \in Users : PollDone(u) \/ PollTimeout(u)
    \/ Collect
    \/ CollectHangs

NextHang ==
    \/ \E u \in Users : Arrive(u, MaxMainMsgs)
    \/ Tick(MaxMonitorTicks)
    \/ Start(Targets)
    \/ HangLoopStep

SpecHang == InitLive /\ [][NextHang]_vars /\ WF_vars(HangLoopStep)

\* One notification, any registered targets, any of them with an event, any
\* outcome of each send.
InitTargets ==
    /\ InitCommon
    /\ track = "targets"
    /\ accounts = <<>>
    /\ notifiers = NoNotifiers
    /\ config = [interval |-> 2 * DEFAULT_INTERVAL, text_num |-> DEFAULT_TEXT_NUM,
                 poller |-> [u \in Users |-> DEFAULT_TEXT_NUM]]
    /\ inflight = {}
    /\ callLog = {}
    /\ stopping = FALSE
    /\ cycles = 0
    /\ io \in [f : {"input"}, targets : SUBSET AllTargets,
                event_map : SUBSET AllTargets,
                outcome : [AllTargets -> SendOutcomes], out : {NoSends}]

NextTargets == SendNotification

\* A fresh monitor configured with two descriptors, one of them any string,
\* in either order, and any outcome of the connection tests.
InitAccounts ==
    /\ InitCommon
    /\ track = "accounts"
    /\ accounts = <<>>
    /\ notifiers = NoNotifiers
    /\ config = [interval |-> 2 * DEFAULT_INTERVAL, text_num |-> DEFAULT_TEXT_NUM,
                 poller |-> [u \in Users |-> DEFAULT_TEXT_NUM]]
    /\ inflight = {}
    /\ callLog = {}
    /\ stopping = FALSE
    /\ cycles = 0
    /\ \E d \in Descriptors, order \in {1, 2}, reach \in [1..2 -> BOOLEAN] :
          io = [f |-> "accounts",
                accounts |-> IF order = 1 THEN <<d, OtherAccount>>
                             ELSE <<OtherAccount, d>>,
                reach |-> reach, out |-> NoPollers, dispatched |-> {}]

NextAccounts == BuildPollers

SpecAccounts == InitAccounts /\ [][NextAccounts]_vars

SpecTargets == InitTargets /\ [][NextTargets]_vars

\* The monitor constructed with any character budget, its setters, start and
\* stop.
InitConfig ==
    /\ InitCommon
    /\ track = "config"
    /\ accounts = <<"u1", "u2">>
    /\ notifiers = NoNotifiers
    /\ \E text_num \in TextNumValues :
          config = [interval |-> 2 * DEFAULT_INTERVAL, text_num |-> text_num,
                    poller |-> [u \in Users |-> DEFAULT_TEXT_NUM]]
    /\ inflight = {}
    /\ io = NoIO
    /\ callLog = {}
    /\ stopping = FALSE
    /\ cycles = 0

NextConfig ==
    \/ Start(Targets)
    \/ Stop
    \/ \E v \in IntervalValues : SetInterval(v)
    \/ \E v \in TextNumValues : SetTextNum(v)

SpecConfig == InitConfig /\ [][NextConfig]_vars

(***************************************************************************)
(* Properties of one poller (Spec).                                        *)
(***************************************************************************)
InRet(uid) == \E k \in 1..Len(lastPoll.ret) : lastPoll.ret[k] = uid

\* The last step was a check_and_notify() call in which the connection, both
\* searches and every fetch succeeded.
CleanPoll == lastPoll.user # "none" /\ lastPoll.clean

\* C1: the first call of a fresh poller (cursor empty) on a non-empty mailbox
\* returns no notification and leaves the cursor on the newest message, even
\* when nothing fails during the call.
C1_BaselineSuppression ==
    (CleanPoll /\ lastPoll.pre = NoUid /\ mailbox[lastPoll.user] # <<>>)
        => /\ lastPoll.ret = <<>>
           /\ notifiers[lastPoll.user].last_uid = UidOf(Len(mailbox[lastPoll.user]))

\* C2: a call never moves a set cursor to a message that arrived before the
\* one it held, and never empties it.
C2_MonotonicCursor ==
    (lastPoll.user # "none" /\ lastPoll.pre # NoUid)
        => notifiers[lastPoll.user].last_uid >= lastPoll.pre

\* C3: a call in which the connection or a search raised returns nothing,
\* drops the connection and leaves the cursor as it found it.
C3_ErrorKeepsCursor ==
    (lastPoll.user # "none" /\ lastPoll.err # "none")
        => /\ lastPoll.ret = <<>>
           /\ ~notifiers[lastPoll.user].mail
           /\ notifiers[lastPoll.user].last_uid = lastPoll.pre

\* C6: in a call of a poller with a set cursor in which nothing fails, a
\* message that arrived after the cursor and is dated before the recency
\* window is not returned and the cursor ends at or after it; one dated inside
\* the window is returned.
C6_RecencyFilter ==
    (CleanPoll /\ lastPoll.pre # NoUid) =>
        \A i \in 1..Len(mailbox[lastPoll.user]) :
            UidOf(i) > lastPoll.pre =>
                LET m == mailbox[lastPoll.user][i]
                IN /\ (m.date # NoDate /\ m.date <= now - RecencyWindow)
                        => /\ ~InRet(UidOf(i))
                           /\ notifiers[lastPoll.user].last_uid >= UidOf(i)
                   /\ (m.date # NoDate /\ m.date > now - RecencyWindow)
                        => InRet(UidOf(i))

\* C7: in a call of a poller with a set cursor in which nothing fails, every
\* message that arrived after the cursor and has no parseable Date is returned.
C7_UnknownTimeEmitted ==
    (CleanPoll /\ lastPoll.pre # NoUid) =>
        \A i \in 1..Len(mailbox[lastPoll.user]) :
            (UidOf(i) > lastPoll.pre /\ mailbox[lastPoll.user][i].date = NoDate)
                => InRet(UidOf(i))

(***************************************************************************)
(* Properties of the monitor with one account (SpecOne) and of its dedup   *)
(* stage (SpecDedup).                                                      *)
(***************************************************************************)
\* C4: no message is returned as a notification by more than one poll of its
\* account, whatever polls, errors, rebuilds, stops and starts happen.
C4_NoDuplicateNotification ==
    \A u \in Users : \A i \in DOMAIN notified[u] : notified[u][i] < 2

Forwarded == {e \in presLog : e.fwd}

Apart(a, b) == IF a.t >= b.t THEN a.t - b.t ELSE b.t - a.t

\* C8 as stated: of the notifications with one dedup key that the result loop
\* is given less than DEDUP_CLEANUP_INTERVAL apart, no two are forwarded,
\* wherever the bulk clear falls.
C8_OneForwardWithinInterval ==
    \A a \in Forwarded : \A b \in Forwarded :
        (a.key = b.key /\ a # b) => Apart(a, b) >= DEDUP_CLEANUP_INTERVAL

\* C8 amended: of the notifications with one dedup key that the result loop is
\* given between two bulk clears of the dedup set, exactly one is forwarded.
C8_OneForwardBetweenClears ==
    \A a \in presLog :
        Cardinality({b \in Forwarded : b.key = a.key /\ b.epoch = a.epoch}) = 1

\* Two notifications with one key were given to the loop between two clears,
\* the later one of another message or at another time, and it was dropped.
C8_Witness ==
    \E a \in Forwarded : \E b \in presLog :
        /\ b.key = a.key /\ b.epoch = a.epoch /\ ~b.fwd
        /\ a.to = Targets
        /\ (b.uid # a.uid \/ b.t > a.t)

(***************************************************************************)
(* Properties of the running monitor with two accounts (SpecMonitor,       *)
(* SpecLoss).                                                              *)
(***************************************************************************)
\* C5: while the monitor runs with a target and is between two cycles, every
\* message that arrived after its account's cursor was set, and that the cursor
\* moved past while the message was inside the recency window, has been handed
\* to the targets (or dropped as the duplicate of a notification that was).
C5_NoLoss ==
    (is_running /\ targets # {} /\ pc = "idle") =>
        \A u \in Users : \A i \in 1..Len(mailbox[u]) :
            ({<<u, UidOf(i), "after">>, <<u, UidOf(i), "passed">>} \subseteq msgLog)
                => \E how \in {"sent", "dup"} : <<u, UidOf(i), how>> \in msgLog

\* C9: in a cycle where the connection of some account failed, the cursor of
\* that account is as it was, and every notification the polls of the cycle
\* returned went through the dedup test and, unless a duplicate, to all targets.
C9_IsolationUnderFailure ==
    (lastCollect.done /\ lastCollect.connectFailed # {}) =>
        /\ lastCollect.connectFailed \cap lastCollect.cursorMoved = {}
        /\ \A p \in lastCollect.returned :
              p \in lastCollect.fwd \cup lastCollect.dropped

\* A cycle in which the connection of an account with a set cursor failed and
\* a notification of the other account was forwarded.
C9_Witness ==
    /\ lastCollect.done
    /\ \E f \in lastCollect.connectFailed :
          /\ f \in DOMAIN notifiers /\ notifiers[f].last_uid # NoUid
          /\ \E p \in lastCollect.returned \cap lastCollect.fwd : p[1] # f

\* C10: in a cycle where the check of some account timed out, only that
\* account has a timeout for a result, and every notification returned by the
\* checks of the other accounts went through the dedup test and, unless a
\* duplicate, to all targets.
C10_TimeoutIsolation ==
    (lastCollect.done /\ lastCollect.timedOut # {}) =>
        /\ \A p \in lastCollect.returned : p[1] \notin lastCollect.timedOut
        /\ lastCollect.completed = lastCollect.polled \ lastCollect.timedOut
        /\ \A u \in lastCollect.completed :
              \A p \in lastCollect.returnedBy[u] :
                  p \in lastCollect.fwd \cup lastCollect.dropped

\* A cycle in which the check of one account timed out and a notification of
\* the other account was forwarded.
C10_Witness ==
    /\ lastCollect.done
    /\ \E f \in lastCollect.timedOut :
          \E p \in lastCollect.returned \cap lastCollect.fwd : p[1] # f

(***************************************************************************)
(* Properties of the text extraction (SpecText).                           *)
(***************************************************************************)
EndsWithMarker(s) == Len(s) >= 3 /\ SubSeq(s, Len(s) - 2, Len(s)) = Marker

\* C18 as stated: the excerpt (when it is not the placeholder, which is
\* shorter than any budget in use) has at most n + 3 characters, and it ends
\* with the marker exactly when the normalised text is longer than the budget
\* n; a subject is cut by the same rule.
C18_Truncation ==
    /\ io.f = "_process_content" =>
          /\ io.out # Placeholder => Len(io.out) <= io.n + 3
          /\ EndsWithMarker(io.out) <=> Len(Normalise(io.text)) > io.n
    /\ io.f = "subject" =>
          /\ Len(io.out) <= io.n + 3
          /\ EndsWithMarker(io.out) <=> Len(io.text) > io.n

\* C18 amended: a text that normalises to nothing gives the placeholder; a
\* normalised text longer than n gives its first n characters and the marker,
\* n + 3 characters in all; any other gives the normalised text itself (which
\* ends with the marker if the text does).  A subject is cut the same way,
\* without the normalisation.
C18_TruncationAmended ==
    /\ io.f = "_process_content" =>
          LET t == Normalise(io.text)
          IN /\ t = <<>> => io.out = Placeholder
             /\ (t # <<>> /\ Len(t) > io.n) =>
                   /\ Len(io.out) = io.n + 3
                   /\ EndsWithMarker(io.out)
                   /\ Take(io.out, io.n) = Take(t, io.n)
             /\ (t # <<>> /\ Len(t) <= io.n) => io.out = t
    /\ io.f = "subject" =>
          /\ Len(io.text) > io.n =>
                /\ Len(io.out) = io.n + 3
                /\ EndsWithMarker(io.out)
                /\ Take(io.out, io.n) = Take(io.text, io.n)
          /\ Len(io.text) <= io.n => io.out = io.text

\* A text with a line break in it, longer than the budget when normalised,
\* was cut.
C18_Witness ==
    /\ io.f = "_process_content"
    /\ \E i \in 1..Len(io.text) : io.text[i] = "\n"
    /\ Len(Normalise(io.text)) > io.n
    /\ io.n > 0
    /\ Len(io.out) = io.n + 3

(***************************************************************************)
(* Properties of the configuration (SpecConfig).                           *)
(***************************************************************************)
\* C17: the poll interval is at least MIN_INTERVAL, and the character budget
\* of the monitor and of every poller it holds is at least MIN_TEXT_NUM.
C17_ConfigFloors ==
    /\ config.interval >= MIN_INTERVAL
    /\ config.text_num >= MIN_TEXT_NUM
    /\ \A u \in DOMAIN notifiers : config.poller[u] >= MIN_TEXT_NUM

(***************************************************************************)
(* Properties of the calls of start() and stop() (SpecThreads).            *)
(***************************************************************************)
\* C13: the monitor is either stopped or running; a start() called while it
\* runs changes nothing (no poller rebuilt, no loop task created), and a stop()
\* called while it is stopped, a second stop() in a row included, changes
\* nothing.
C13_Lifecycle ==
    /\ is_running \in BOOLEAN
    /\ \A r \in callLog :
          /\ (r.op = "start" /\ r.running) => (r.same /\ ~r.spawned)
          /\ (r.op = "stop" /\ ~r.running) => r.same

C13_Witness ==
    /\ \E r \in callLog : r.op = "start" /\ r.running /\ r.left # {}
    /\ \E r \in callLog : r.op = "stop" /\ r.running
    /\ \E r \in callLog : r.op = "stop" /\ ~r.running
    /\ ~is_running /\ ~stopping

\* C14: when a stop() called while the monitor runs returns, no poller is left
\* in _notifiers and no poller's connection is open.
C14_ShutdownClosesAll ==
    \A r \in callLog :
        (r.op = "stop" /\ r.running) => (r.left = {} /\ r.open = {})

\* C19: no account has a check_and_notify() thread of a check task that is over
\* still running on its poller while the cycle's check task runs another one on
\* the same poller.
C19_ExclusiveConnection ==
    \A u \in inflight :
        ~(pc = "gather" /\ u \in DOMAIN results /\ results[u].kind = "pending")

(***************************************************************************)
(* Properties of the rebuilds of the pollers (SpecMain).                   *)
(***************************************************************************)
\* Something of the accounts, the interval or the character budget changes.
ConfigChanged ==
    \/ accounts' # accounts
    \/ config'.interval # config.interval
    \/ config'.text_num # config.text_num

\* Every account with a poller before and after the step keeps its cursor.
CursorsKept ==
    \A u \in DOMAIN notifiers \cap DOMAIN notifiers' :
        notifiers'[u].last_uid = notifiers[u].last_uid

C20_NoReplaceDuringCycle ==
    [][(ConfigChanged /\ pc = "gather") => notifiers' = notifiers]_vars

(***************************************************************************)
(* Properties of the hand-over to the targets (SpecTargets).               *)
(***************************************************************************)
\* C15: a send is attempted for every registered target that has an event,
\* whatever the sends to the other targets do (raise, report a failure).
C15_PerTargetIsolation ==
    io.f = "_send_notifications_to_targets" =>
        io.out.attempted = io.targets \cap io.event_map

C15_Witness ==
    /\ io.f = "_send_notifications_to_targets"
    /\ io.targets = AllTargets /\ io.event_map = AllTargets
    /\ io.outcome["t1"] = "raise" /\ io.outcome["t2"] = "false"
    /\ io.outcome["t3"] = "ok"
    /\ "t3" \in io.out.attempted

(***************************************************************************)
(* Progress of the loop (SpecLive).                                        *)
(***************************************************************************)
\* A step of the iteration under way, or of the one just over, raised: a
\* rebuild, the result loop, or a check (timed out or failed).
StepRaised ==
    \/ "raised" \in DOMAIN lastCollect
    \/ /\ pc = "gather"
       /\ \E u \in DOMAIN results :
             \/ results[u].kind = "timeout"
             \/ results[u].kind = "done" /\ results[u].err # "none"

\* C16: while the monitor runs, after an iteration in which a check, the
\* rebuild or the hand-over raised, the loop task is alive and begins a further
\* iteration.
C16_LoopSurvives ==
    \A k \in {0, 1} :
        (is_running /\ StepRaised /\ cycles = k) ~> (task /\ cycles # k)

C16_Witness ==
    /\ is_running /\ task
    /\ lastCollect = Raised("delivery")
    /\ cycles = 1

(***************************************************************************)
(* A send that never completes (SpecHang).                                 *)
(***************************************************************************)
\* C36: when the loop waits for the sends of a notification, one of which
\* never completes, with a send attempted for every target, the loop goes on
\* to begin a further cycle.
C36_HangDoesNotStall ==
    \A k \in {0, 1} :
        (/\ is_running
         /\ pc = "send"
         /\ lastCollect = [done |-> FALSE, hung |-> TRUE, attempted |-> targets]
         /\ cycles = k)
            ~> (cycles # k)

(***************************************************************************)
(* The running flag and the loop task (SpecOverlap).                       *)
(***************************************************************************)
\* C33: _is_running is set exactly when the monitor holds a live loop task,
\* also when start() is called while a stop() waits for the cancelled task.
C33_RunningMatchesTask ==
    is_running <=> task

(***************************************************************************)
(* A start() that fails (SpecFailedStart).                                 *)
(***************************************************************************)
\* C34: after a start() whose rebuild of the pollers raised, _is_running is
\* not set, and a start() called with the flag clear creates the loop task.
C34_FailedStartLeavesStopped ==
    \A r \in callLog :
        /\ r.op = "start raised" => ~r.running
        /\ (r.op = "start" /\ ~r.running) => r.spawned

(***************************************************************************)
(* An account that is left out for a while (SpecGap).                      *)
(***************************************************************************)
\* C35: an account that a rebuild left without a poller and that a later
\* rebuild gives a poller again resumes from the cursor it had.
C35_CursorSurvivesExclusion ==
    [][\A e \in msgLog :
          (/\ e[3] = "excluded"
           /\ e[1] \notin DOMAIN notifiers
           /\ e[1] \in DOMAIN notifiers')
              => notifiers'[e[1]].last_uid = e[2]]_vars

(***************************************************************************)
(* The checks the loop gave up on (SpecAbandon).                           *)
(***************************************************************************)
\* C32: the cursor of a poller is never at or beyond a message that a check
\* the loop gave up on returned, unless the message was handed to the
\* targets (or dropped as a duplicate of one that was).
C32_NoLossOnTimeout ==
    \A u \in DOMAIN notifiers : \A i \in 1..Len(mailbox[u]) :
        (/\ <<u, UidOf(i), "abandoned">> \in msgLog
         /\ notifiers[u].last_uid >= UidOf(i))
            => \E how \in {"sent", "dup"} : <<u, UidOf(i), how>> \in msgLog

(***************************************************************************)
(* The user a notification is sent under (SpecMain).                       *)
(***************************************************************************)
\* C31: every email the result loop hands to the targets is sent under the
\* user of the poller whose mailbox held it, whatever happened to the
\* pollers between the dispatch of the checks and the loop over the results.
C31_CorrectAttribution ==
    lastCollect.done =>
        \A a \in lastCollect.attributed : a.user = a.owner

(***************************************************************************)
(* The descriptors that do not parse (SpecAccounts).                       *)
(***************************************************************************)
\* The positions of the commas of a descriptor, and whether the characters
\* from position a to position b hold something other than blanks.
CommaAt(d) == {k \in 1..Len(d) : d[k] = ","}
NonBlank(d, a, b) == \E k \in a..b : d[k] # " "

\* Exactly three comma-separated fields, none of them empty or blank.
WellFormed(d) ==
    /\ Cardinality(CommaAt(d)) = 2
    /\ LET c1 == CHOOSE k \in CommaAt(d) : \A m \in CommaAt(d) : k <= m
           c2 == CHOOSE k \in CommaAt(d) : \A m \in CommaAt(d) : m <= k
       IN /\ NonBlank(d, 1, c1 - 1)
          /\ NonBlank(d, c1 + 1, c2 - 1)
          /\ NonBlank(d, c2 + 1, Len(d))

\* C30: a descriptor that is not three non-empty comma-separated fields is
\* left out of the PollerSet (every poller has the fields of a well-formed,
\* reachable descriptor), and every well-formed, reachable account of the
\* list has a poller and a check task.
C30_MalformedSkippedIndividually ==
    io.f = "init_notifiers" =>
        /\ \A u \in DOMAIN io.out :
              \E i \in 1..Len(io.accounts) :
                 /\ WellFormed(io.accounts[i])
                 /\ io.reach[i]
                 /\ parse_account(io.accounts[i])
                       = <<io.out[u].host, u, io.out[u].password>>
        /\ \A i \in 1..Len(io.accounts) :
              WellFormed(io.accounts[i]) /\ io.reach[i] =>
                 \E u \in DOMAIN io.out \cap io.dispatched :
                    parse_account(io.accounts[i])
                       = <<io.out[u].host, u, io.out[u].password>>

\* A blank-user descriptor with three fields comes first, the reachable
\* well-formed one after it has its poller.
C30_Witness ==
    /\ io.f = "init_notifiers"
    /\ Len(split(io.accounts[1])) = 3
    /\ ~WellFormed(io.accounts[1])
    /\ WellFormed(io.accounts[2]) /\ io.reach[1] /\ io.reach[2]
    /\ DOMAIN io.out = {<<"b">>}

(***************************************************************************)
(* The periodic rebuild of main.py (SpecMain).                             *)
(***************************************************************************)
\* C29: a cycle rebuilds the PollerSet and resets the rebuild timestamp
\* exactly when more than RECREATE_INTERVAL passed since the last rebuild,
\* and the rebuild closes every connection of the old PollerSet.
C29_PeriodicRebuild ==
    \A r \in callLog :
        r.op = "cycle" => /\ r.timely
                          /\ r.open = {}

(***************************************************************************)
(* The threads of the network operations (SpecNet).                        *)
(***************************************************************************)
\* C21: every blocking network operation the monitor performs runs in a
\* worker thread and under a timeout, never on the event-loop thread.
C21_NoBlockingOnEventLoop ==
    \A r \in callLog : r.thread = "worker" /\ r.timeout

(***************************************************************************)
(* The dedup set and the deliveries (SpecDelivery).                        *)
(***************************************************************************)
\* C22: every key of the dedup set belongs to a notification that reached at
\* least one target since the set was last cleared.
C22_DedupKeysWereDelivered ==
    \A k \in sent_emails :
        \E e \in presLog : /\ e.key = k
                           /\ e.fwd
                           /\ e.epoch = sent_emails_cleanup_time
                           /\ e.delivered # {}

(***************************************************************************)
(* Properties of the identifiers and of one call (Spec, SpecCall).         *)
(***************************************************************************)
\* C24: for any two identifiers the server has handed out, the comparison
\* `uid > last_uid` of the poller holds exactly when the first arrived after
\* the second.
C24_ByteOrderIsArrivalOrder ==
    \A u \in Users : \A a, b \in Uids(mailbox[u]) : UidGT(a, b) <=> (a > b)

\* The last step was a call of a poller with a set cursor.
ActivePoll == lastPoll.user # "none" /\ lastPoll.pre # NoUid

\* The comparison of the poller orders the cursor the call began with and the
\* identifiers of the mailbox as they arrived.
OrderAgrees ==
    \A a, b \in Uids(mailbox[lastPoll.user]) \cup {lastPoll.pre} :
        UidGT(a, b) <=> (a > b)

StrictlyAscending(q) == \A i, j \in 1..Len(q) : i < j => q[i] < q[j]

\* C23: in a call of a poller with a set cursor in which nothing fails, every
\* message that arrived after the cursor the call began with is fetched (and so
\* put to the time test), also where the comparison orders the identifiers as
\* they arrived.
C23_EveryNewIdExamined ==
    (ActivePoll /\ lastPoll.clean /\ OrderAgrees) =>
        \A uid \in Uids(mailbox[lastPoll.user]) :
            uid > lastPoll.pre =>
                \E k \in 1..Len(lastPoll.examined) : lastPoll.examined[k] = uid

\* C25: after a call of a poller with a set cursor in which the connection and
\* the ALL search succeeded, the cursor is on the newest message of the
\* mailbox, also where the comparison orders the identifiers as they arrived.
C25_CursorReachesMaximum ==
    (ActivePoll /\ lastPoll.connect /\ lastPoll.all = "ok" /\ OrderAgrees) =>
        \A uid \in Uids(mailbox[lastPoll.user]) \cup {lastPoll.pre} :
            notifiers[lastPoll.user].last_uid >= uid

\* C26: in one call the messages are fetched in strictly ascending order of
\* their identifiers and the list returned is in that order, the UNSEEN pass
\* and the ALL pass taken together, also where the comparison orders the
\* identifiers as they arrived.
C26_AscendingProcessing ==
    (ActivePoll /\ OrderAgrees) =>
        /\ StrictlyAscending(lastPoll.examined)
        /\ StrictlyAscending(lastPoll.ret)

\* C27: in one call no message is fetched twice, and none is twice in the list
\* the call returns.
C27_NoDoubleCounting ==
    lastPoll.user # "none" =>
        /\ \A i, j \in 1..Len(lastPoll.examined) :
              i # j => lastPoll.examined[i] # lastPoll.examined[j]
        /\ \A i, j \in 1..Len(lastPoll.ret) :
              i # j => lastPoll.ret[i] # lastPoll.ret[j]

\* A call in which the UNSEEN pass and the ALL pass both fetched, and a fetch
\* of the UNSEEN pass failed.
C27_Witness ==
    /\ ActivePoll
    /\ Len(lastPoll.examined) >= 2
    /\ lastPoll.ret # <<>>
    /\ lastPoll.fetchFailed # {}
    /\ lastPoll.unseen = "ok" /\ lastPoll.all = "ok"
    /\ ~StrictlyAscending(lastPoll.examined)

\* C28: a call in which the connection, a search or a fetch failed leaves the
\* poller without a connection.
C28_TeardownOnError ==
    (/\ lastPoll.user # "none"
     /\ \/ ~lastPoll.connect
        \/ lastPoll.unseen = "raise"
        \/ lastPoll.all = "raise"
        \/ lastPoll.fetchFailed # {})
        => ~notifiers[lastPoll.user].mail

=============================================================================
